---------------------------- MODULE Spec2Model ----------------------------
(***************************************************************************)
(* Decision engine of the 3D snake bot (decision_maker.py): bounded-radius *)
(* obstacle scan, depth-capped A* search, the three policies and the       *)
(* dispatcher decide_move, together with the engine state that survives    *)
(* across turns (current_target, steps_since_target_change) and the       *)
(* target/route slots of the visualisation.                                *)
(*                                                                         *)
(* Python values are represented as follows:                               *)
(*   tuple (x, y, z) and list [dx, dy, dz]  ->  <<x, y, z>>                *)
(*   Point3D(x, y, z)                       ->  [x |-> , y |-> , z |-> ]   *)
(*   Food(c, points)                        ->  [c |-> Point3D, points |->]*)
(*   list                                   ->  sequence                   *)
(*   dict                                   ->  function                   *)
(*   Optional[v] holding an object          ->  <<>> (None) or <<v>>       *)
(*   Optional[path]                         ->  <<>> (None) or the path;   *)
(*       the code only tests it with "if path", which treats None and the  *)
(*       empty list alike, and a_star never returns an empty list.         *)
(***************************************************************************)
EXTENDS Integers, Sequences, FiniteSets, TLC

VARIABLES
    strategy,                   \* DecisionMaker.strategy
    max_search_depth,           \* DecisionMaker.max_search_depth
    target_change_interval,     \* DecisionMaker.target_change_interval
    current_target,             \* DecisionMaker.current_target
    steps_since_target_change,  \* DecisionMaker.steps_since_target_change
    vis_target,                 \* Visualization.target
    vis_route,                  \* Visualization.route
    game_state,                 \* the snapshot handed to the next decision call
    direction,                  \* value the last decision call returned on game_state
    error,                      \* exception the last decision call raised
    as_in,                      \* arguments of a direct a_star call
    as_out,                     \* result of that call
    loop                        \* the turn loop bot_logic: where it stands, and
                                \* what it did with the state it fetched last

vars == <<strategy, max_search_depth, target_change_interval, current_target,
          steps_since_target_change, vis_target, vis_route, game_state,
          direction, error, as_in, as_out, loop>>

engineVars == <<strategy, max_search_depth, target_change_interval,
                current_target, steps_since_target_change, vis_target,
                vis_route, game_state, direction, error>>

searchVars == <<as_in, as_out>>

loopVars == <<loop>>

---------------------------------------------------------------------------
(* Bounds of the model *)

MaxObstacles == 3       \* size of the obstacle sets handed to a_star directly
MaxDepthBound == 4      \* largest max_depth handed to a_star directly
MaxFood == 2            \* length of the food list of a snapshot
MaxSteps == 6           \* decision calls stop when the step counter is here
MaxSnakeLen == 2        \* segments of the controlled snake

\* map extents explored: the flat 3x3x1 board and the 2x2x2 cube
MapSizes == {<<3, 3, 1>>, <<2, 2, 2>>}

---------------------------------------------------------------------------
(* Python helpers *)

None == <<>>

Some(v) == <<v>>

Abs(n) == IF n < 0 THEN -n ELSE n

Point3D(x, y, z) == [x |-> x, y |-> y, z |-> z]

\* (p.x, p.y, p.z)
AsTuple(p) == <<p.x, p.y, p.z>>

Cells(map_size) ==
    {<<x, y, z>> : x \in 0..(map_size[1] - 1), y \in 0..(map_size[2] - 1),
                   z \in 0..(map_size[3] - 1)}

\* comparison of Python tuples (f, (x, y, z)), as heapq applies it
TupleLess(a, b) ==
    \/ a[1] < b[1]
    \/ /\ a[1] = b[1]
       /\ \/ a[2][1] < b[2][1]
          \/ /\ a[2][1] = b[2][1]
             /\ \/ a[2][2] < b[2][2]
                \/ /\ a[2][2] = b[2][2]
                   /\ a[2][3] < b[2][3]

\* index of the entry heapq.heappop removes: the least entry of the heap
HeapTopIndex(open_set) ==
    CHOOSE i \in 1..Len(open_set) :
        /\ \A j \in 1..Len(open_set) : ~TupleLess(open_set[j], open_set[i])
        /\ \A j \in 1..(i - 1) : open_set[j] # open_set[i]

HeapPopRest(open_set) ==
    LET i == HeapTopIndex(open_set)
    IN  SubSeq(open_set, 1, i - 1) \o SubSeq(open_set, i + 1, Len(open_set))

\* d[k] = v on a dict
DictSet(d, k, v) == [n \in (DOMAIN d) \cup {k} |-> IF n = k THEN v ELSE d[n]]

---------------------------------------------------------------------------
(* Grid geometry *)

heuristic(a, b) == Abs(a[1] - b[1]) + Abs(a[2] - b[2]) + Abs(a[3] - b[3])

manhattan_distance(a, b) == Abs(a.x - b.x) + Abs(a.y - b.y) + Abs(a.z - b.z)

\* mutation: the directions are listed z first
possible_directions_zyx ==
    << <<0, 0, 1>>, <<0, 0, -1>>, <<0, 1, 0>>, <<0, -1, 0>>, <<1, 0, 0>>,
       <<-1, 0, 0>> >>

possible_directions ==
    << <<1, 0, 0>>, <<-1, 0, 0>>, <<0, 1, 0>>, <<0, -1, 0>>, <<0, 0, 1>>,
       <<0, 0, -1>> >>

\* mutation: "<=" in place of "<" at the upper extents
InBoundsLoose(x, y, z, map_size) ==
    /\ 0 <= x /\ x <= map_size[1]
    /\ 0 <= y /\ y <= map_size[2]
    /\ 0 <= z /\ z <= map_size[3]

InBounds(x, y, z, map_size) ==
    /\ 0 <= x /\ x < map_size[1]
    /\ 0 <= y /\ y < map_size[2]
    /\ 0 <= z /\ z < map_size[3]

RECURSIVE get_neighbors_from(_, _, _)
get_neighbors_from(node, map_size, i) ==
    IF i > Len(possible_directions) THEN <<>>
    ELSE LET d == possible_directions[i]
             n == <<node[1] + d[1], node[2] + d[2], node[3] + d[3]>>
         IN  IF InBounds(n[1], n[2], n[3], map_size)
             THEN <<n>> \o get_neighbors_from(node, map_size, i + 1)
             ELSE get_neighbors_from(node, map_size, i + 1)

\* mutation: the six neighbours without the check against the map extents
get_neighbors_unchecked(node, map_size) ==
    [i \in 1..Len(possible_directions) |->
        <<node[1] + possible_directions[i][1],
          node[2] + possible_directions[i][2],
          node[3] + possible_directions[i][3]>>]

get_neighbors(node, map_size) == get_neighbors_from(node, map_size, 1)

---------------------------------------------------------------------------
(* Path search *)

RECURSIVE reconstruct_from(_, _)
reconstruct_from(came_from, current) ==
    IF came_from[current] # None
    THEN reconstruct_from(came_from, came_from[current]) \o <<current>>
    ELSE <<current>>

\* path = [current]; walk came_from back to the start; path.reverse()
reconstruct_path(came_from, current) == reconstruct_from(came_from, current)

\* mutation: a neighbour reached with exactly max_depth moves is not queued
PushAllowedStrict(tentative_g, max_depth) == tentative_g < max_depth

\* the test "if tentative_g <= max_depth" that guards the push of a neighbour
PushAllowed(tentative_g, max_depth) == tentative_g <= max_depth

\* the body of "for neighbor in neighbors" applied from index i on; s holds
\* open_set, came_from and g_score (f_score is written and never read)
RECURSIVE a_star_relax(_, _, _, _, _, _, _)
a_star_relax(s, current, neighbors, i, goal, obstacles, max_depth) ==
    IF i > Len(neighbors) THEN s
    ELSE LET neighbor == neighbors[i]
             tentative_g == s.g_score[current] + 1
         IN  IF neighbor \in obstacles
             THEN a_star_relax(s, current, neighbors, i + 1, goal, obstacles,
                               max_depth)
             ELSE IF neighbor \notin DOMAIN s.g_score
                     \/ tentative_g < s.g_score[neighbor]
                  THEN LET f == tentative_g + heuristic(neighbor, goal)
                           t == [open_set |->
                                    IF PushAllowed(tentative_g, max_depth)
                                    THEN Append(s.open_set, <<f, neighbor>>)
                                    ELSE s.open_set,
                                 came_from |->
                                    DictSet(s.came_from, neighbor, current),
                                 g_score |->
                                    DictSet(s.g_score, neighbor, tentative_g)]
                       IN  a_star_relax(t, current, neighbors, i + 1, goal,
                                        obstacles, max_depth)
                  ELSE a_star_relax(s, current, neighbors, i + 1, goal,
                                    obstacles, max_depth)

\* whether a popped node is left unexpanded
DepthCapReached(current_depth, max_depth) == current_depth >= max_depth

\* the "while open_set" loop
RECURSIVE a_star_loop(_, _, _, _, _)
a_star_loop(s, goal, obstacles, map_size, max_depth) ==
    IF s.open_set = <<>> THEN None
    ELSE LET current == s.open_set[HeapTopIndex(s.open_set)][2]
             popped == [s EXCEPT !.open_set = HeapPopRest(s.open_set)]
             current_depth == s.g_score[current]
         IN  IF current = goal
             THEN reconstruct_path(s.came_from, current)
             ELSE IF DepthCapReached(current_depth, max_depth)
                  THEN a_star_loop(popped, goal, obstacles, map_size,
                                   max_depth)
                  ELSE a_star_loop(
                           a_star_relax(popped, current,
                                        get_neighbors(current, map_size), 1,
                                        goal, obstacles, max_depth),
                           goal, obstacles, map_size, max_depth)

a_star(start, goal, obstacles, map_size, max_depth) ==
    a_star_loop([open_set |-> << <<0, start>> >>,
                 came_from |-> [n \in {start} |-> None],
                 g_score |-> [n \in {start} |-> 0]],
                goal, obstacles, map_size, max_depth)

---------------------------------------------------------------------------
(* Snapshot access *)

\* members of the enum Strategy
StrategyMembers == {"BASIC", "ADVANCED"}

\* default of the constructor argument target_change_interval
DefaultTargetChangeInterval == 5

Food(c, points) == [c |-> c, points |-> points]

\* mutation: only the first segment of each body is collected
BodyHeadPoints(bodies) ==
    {bodies[i].geometry[1] : i \in {j \in 1..Len(bodies) :
                                        bodies[j].geometry # <<>>}}

\* the points of a list of bodies (objects with a geometry list)
BodyPoints(bodies) ==
    UNION {{bodies[i].geometry[j] : j \in 1..Len(bodies[i].geometry)} :
           i \in 1..Len(bodies)}

\* mutation: the walls are not collected
NoFencePoints(gs) == {}

FencePoints(gs) == {gs.fences[i] : i \in 1..Len(gs.fences)}

\* index of the first least key
FirstMinIndex(keys) ==
    CHOOSE i \in 1..Len(keys) :
        /\ \A j \in 1..Len(keys) : keys[i] <= keys[j]
        /\ \A j \in 1..(i - 1) : keys[j] > keys[i]

RemoveAt(seq, i) == SubSeq(seq, 1, i - 1) \o SubSeq(seq, i + 1, Len(seq))

\* sorted(seq, key = ...), which is stable; keys[i] is the key of seq[i]
RECURSIVE SortedByKeys(_, _)
SortedByKeys(seq, keys) ==
    IF seq = <<>> THEN <<>>
    ELSE LET i == FirstMinIndex(keys)
         IN  <<seq[i]>> \o SortedByKeys(RemoveAt(seq, i), RemoveAt(keys, i))

---------------------------------------------------------------------------
(* Target selection *)

RECURSIVE find_closest_food_from(_, _, _, _, _)
find_closest_food_from(head, food_list, i, min_distance, closest_food) ==
    IF i > Len(food_list) THEN closest_food
    ELSE LET food == food_list[i]
             distance == Abs(food.c.x - head.x) + Abs(food.c.y - head.y)
                         + Abs(food.c.z - head.z)
         IN  IF min_distance = None \/ distance < min_distance[1]
             THEN find_closest_food_from(head, food_list, i + 1,
                                         Some(distance), Some(food))
             ELSE find_closest_food_from(head, food_list, i + 1,
                                         min_distance, closest_food)

\* mutation: "distance <= min_distance", the last of the nearest foods wins
find_closest_food_last(head, food_list) ==
    IF food_list = <<>> THEN None
    ELSE LET d(i) == manhattan_distance(head, food_list[i].c)
         IN  Some(food_list[CHOOSE i \in 1..Len(food_list) :
                     /\ \A j \in 1..Len(food_list) : d(i) <= d(j)
                     /\ \A j \in (i + 1)..Len(food_list) : d(j) > d(i)])

\* min_distance starts at float("inf"), here None
find_closest_food(head, food_list) ==
    find_closest_food_from(head, food_list, 1, None, None)

\* mutation: a food exactly radius away is left out
WithinRadiusStrict(distance, radius) == distance < radius

\* the test that admits a food to the candidates
WithinRadius(distance, radius) == distance <= radius

find_food_within_radius(head, food_list, radius) ==
    SelectSeq(food_list,
              LAMBDA food : WithinRadius(manhattan_distance(head, food.c),
                                         radius))

get_enemy_heads_within_radius(gs, head, radius) ==
    LET with_geometry == SelectSeq(gs.enemies, LAMBDA e : e.geometry # <<>>)
        heads == [i \in 1..Len(with_geometry) |-> with_geometry[i].geometry[1]]
    IN  SelectSeq(heads, LAMBDA h : manhattan_distance(head, h) <= radius)

\* first candidate, in the order given, to which a_star finds a path;
\* PosOf gives the Point3D of a candidate
RECURSIVE first_with_path(_, _, _, _, _, _, _)
first_with_path(head, sorted, i, obstacles, map_size, max_depth, is_food) ==
    IF i > Len(sorted) THEN [target |-> None, path |-> None]
    ELSE LET c == IF is_food THEN sorted[i].c ELSE sorted[i]
             path == a_star(AsTuple(head), AsTuple(c), obstacles, map_size,
                            max_depth)
         IN  IF path # <<>>
             THEN [target |-> Some(sorted[i]), path |-> path]
             ELSE first_with_path(head, sorted, i + 1, obstacles, map_size,
                                  max_depth, is_food)

select_new_target(head, available_food, obstacles, map_size, max_depth) ==
    LET keys == [i \in 1..Len(available_food) |->
                    manhattan_distance(head, available_food[i].c)]
        sorted_food == SortedByKeys(available_food, keys)
    IN  first_with_path(head, sorted_food, 1, obstacles, map_size, max_depth,
                        TRUE)

find_closest_enemy_head(head, enemy_heads, obstacles, map_size, max_depth) ==
    LET keys == [i \in 1..Len(enemy_heads) |->
                    manhattan_distance(head, enemy_heads[i])]
        sorted_heads == SortedByKeys(enemy_heads, keys)
    IN  first_with_path(head, sorted_heads, 1, obstacles, map_size, max_depth,
                        FALSE)

---------------------------------------------------------------------------
(* Direction codec *)

Max(a, b) == IF a > b THEN a ELSE b

\* value returned for a path without a second position
TooShortPathDirection == <<0, 0, 0>>

\* mutation: the step is taken toward the last position of the path
get_direction_to_path_end(head, path) ==
    IF Len(path) < 2 THEN TooShortPathDirection
    ELSE LET last == path[Len(path)]
             d == <<last[1] - head.x, last[2] - head.y, last[3] - head.z>>
         IN  [i \in 1..3 |-> d[i] \div Max(Abs(d[i]), 1)]

get_direction_from_path(head, path) ==
    IF Len(path) < 2 THEN TooShortPathDirection
    ELSE LET next_step == path[2]
             d == <<next_step[1] - head.x, next_step[2] - head.y,
                    next_step[3] - head.z>>
         IN  [i \in 1..3 |-> d[i] \div Max(Abs(d[i]), 1)]

get_direction_vector(head, target) ==
    <<IF head.x < target.x THEN 1 ELSE IF head.x > target.x THEN -1 ELSE 0,
      IF head.y < target.y THEN 1 ELSE IF head.y > target.y THEN -1 ELSE 0,
      IF head.z < target.z THEN 1 ELSE IF head.z > target.z THEN -1 ELSE 0>>

---------------------------------------------------------------------------
(* Obstacle index and safe directions *)

\* mutation: the loop over game_state.fences is missing
get_obstacles_without_fences(gs, my_snake, head, radius) ==
    {AsTuple(p) : p \in
        {q \in BodyPoints(gs.enemies) \cup BodyPoints(gs.snakes) :
            manhattan_distance(head, q) <= radius}}

get_obstacles_within_radius(gs, my_snake, head, radius) ==
    {AsTuple(p) : p \in
        {q \in FencePoints(gs) \cup BodyPoints(gs.enemies)
                \cup BodyPoints(gs.snakes) :
            manhattan_distance(head, q) <= radius}}

get_safe_directions(gs, my_snake) ==
    LET head == my_snake.geometry[1]
        map_size == gs.map_size
        obstacles == {AsTuple(p) : p \in FencePoints(gs)
                                     \cup BodyPoints(gs.enemies)
                                     \cup BodyPoints(gs.snakes)}
    IN  SelectSeq(possible_directions,
                  LAMBDA d :
                      /\ InBounds(head.x + d[1], head.y + d[2], head.z + d[3],
                                  map_size)
                      /\ <<head.x + d[1], head.y + d[2], head.z + d[3]>>
                            \notin obstacles)

\* mutation: the safe directions are returned without the sort
get_alternative_directions_unsorted(head, target, safe_directions) ==
    safe_directions

get_alternative_directions(head, target, safe_directions) ==
    LET keys == [i \in 1..Len(safe_directions) |->
                    manhattan_distance(
                        Point3D(head.x + safe_directions[i][1],
                                head.y + safe_directions[i][2],
                                head.z + safe_directions[i][3]), target)]
    IN  SortedByKeys(safe_directions, keys)

\* random.choice(directions) over the six unit directions
random_move == {possible_directions[i] : i \in 1..Len(possible_directions)}

---------------------------------------------------------------------------
(* Policies.  E is the mutable state a decision call works on: the engine   *)
(* fields current_target and steps (steps_since_target_change) and the      *)
(* visualisation slots vis_target and vis_route.  A policy yields the set   *)
(* of its possible outcomes [eng, ret, error]; the set has several members  *)
(* only where the code draws with random.choice.                            *)

Return(E, d) == [eng |-> E, ret |-> d, error |-> "none"]

Raise(E, exc) == [eng |-> E, ret |-> None, error |-> exc]

\* what basic_strategy returns when the food list holds no target
NoFoodDirection(gs, my_snake) == my_snake.direction

basic_strategy(E, gs, my_snake) ==
    LET head == my_snake.geometry[1]
        target == find_closest_food(head, gs.food)
        E1 == [E EXCEPT !.vis_target = target]
    IN  IF target = None THEN {Return(E1, NoFoodDirection(gs, my_snake))}
        ELSE LET desired_direction == get_direction_vector(head, target[1].c)
                 safe_directions == get_safe_directions(gs, my_snake)
                 alternative_directions ==
                     get_alternative_directions(head, target[1].c,
                                                safe_directions)
             IN  IF \E i \in 1..Len(safe_directions) :
                        safe_directions[i] = desired_direction
                 THEN {Return(E1, desired_direction)}
                 ELSE IF alternative_directions # <<>>
                 THEN {Return(E1, alternative_directions[1])}
                 ELSE IF safe_directions # <<>>
                 THEN {Return(E1, safe_directions[1])}
                 ELSE {Return(E1, my_snake.direction)}

\* random.choice(safe_directions) if there is one, else what follows
SafeOrElse(E, gs, my_snake, otherwise) ==
    LET safe_directions == get_safe_directions(gs, my_snake)
    IN  IF safe_directions # <<>>
        THEN {Return(E, safe_directions[i]) : i \in 1..Len(safe_directions)}
        ELSE {Return(E, d) : d \in otherwise}

\* x == p for a tuple x and a Point3D p: the __eq__ a dataclass generates
\* answers NotImplemented for an object of another class, so Python
\* compares the identities and the result is False
TupleEqualsPoint3D(x, p) == FALSE

\* x in enemy_heads, for a tuple x and a list of Point3D
TupleInPointList(x, points) ==
    \E i \in 1..Len(points) : TupleEqualsPoint3D(x, points[i])

killer_strategy(E, gs, my_snake, max_depth) ==
    LET head == my_snake.geometry[1]
        map_size == gs.map_size
        all_obstacles == get_obstacles_within_radius(gs, my_snake, head,
                                                     max_depth)
        enemy_heads == get_enemy_heads_within_radius(gs, head, max_depth)
        obstacles == {x \in all_obstacles :
                         ~TupleInPointList(x, enemy_heads)}
    IN  IF enemy_heads = <<>>
        THEN SafeOrElse(E, gs, my_snake, random_move)
        ELSE LET found == find_closest_enemy_head(head, enemy_heads,
                                                  obstacles, map_size,
                                                  max_depth)
             IN  IF found.target # None /\ found.path # <<>>
                 THEN {Return([E EXCEPT !.current_target = found.target,
                                        !.vis_target = found.target,
                                        !.steps = 0],
                              get_direction_from_path(head, found.path))}
                 ELSE SafeOrElse(E, gs, my_snake, random_move)

\* mutation: the target is put up for replacement at every call
NeedNewTargetAlways(E, gs, head, obstacles, max_depth) == TRUE

\* need_new_target: whether a held target has to be replaced
NeedNewTarget(E, gs, head, obstacles, max_depth) ==
    IF E.current_target # None
    THEN IF manhattan_distance(head, E.current_target[1].c) > max_depth
         THEN TRUE
         ELSE a_star(AsTuple(head), AsTuple(E.current_target[1].c), obstacles,
                     gs.map_size, max_depth) = <<>>
    ELSE TRUE

\* mutation: the step counter does not hold a selection back
SelectionAllowedAlways(steps, interval) == TRUE

\* mutation: ">" in place of ">="
SelectionAllowedLate(steps, interval) == steps > interval

\* the test "self.steps_since_target_change >= self.target_change_interval"
SelectionAllowed(steps, interval) == steps >= interval

advanced_strategy(E, gs, my_snake, max_depth, interval) ==
    LET head == my_snake.geometry[1]
        map_size == gs.map_size
        obstacles == get_obstacles_within_radius(gs, my_snake, head,
                                                 max_depth)
        available_food == find_food_within_radius(head, gs.food, max_depth)
        need_new_target == NeedNewTarget(E, gs, head, obstacles, max_depth)
    IN  IF need_new_target /\ SelectionAllowed(E.steps, interval)
        THEN LET new == select_new_target(head, available_food, obstacles,
                                          map_size, max_depth)
             IN  IF new.target # None /\ new.path # <<>>
                 THEN {Return([E EXCEPT !.current_target = new.target,
                                        !.steps = 0,
                                        !.vis_target = new.target],
                              get_direction_from_path(head, new.path))}
                 ELSE SafeOrElse([E EXCEPT !.current_target = None], gs,
                                 my_snake, {my_snake.direction})
        ELSE IF E.current_target # None
        THEN LET path == a_star(AsTuple(head),
                                AsTuple(E.current_target[1].c), obstacles,
                                map_size, max_depth)
             IN  IF path # <<>>
                 THEN {Return([E EXCEPT !.vis_route = path],
                              get_direction_from_path(head, path))}
                 ELSE SafeOrElse([E EXCEPT !.current_target = None], gs,
                                 my_snake, {my_snake.direction})
        ELSE SafeOrElse(E, gs, my_snake, {my_snake.direction})

\* the directions the engine E holds blocked, each with its remaining turns:
\* __init__ takes no block duration and creates no attribute for blocked
\* directions, and no method adds, decrements or removes one
blocked_directions(E) == [d \in {} |-> 0]

\* the dispatcher; the expression Strategy.KILLER is evaluated only when the
\* strategy is neither BASIC nor ADVANCED, and raises AttributeError when the
\* enum has no such member
decide_move(E, strat, gs, my_snake, max_depth, interval) ==
    LET E1 == [E EXCEPT !.steps = @ + 1]
    IN  IF strat = "BASIC" THEN basic_strategy(E1, gs, my_snake)
        ELSE IF strat = "ADVANCED"
        THEN advanced_strategy(E1, gs, my_snake, max_depth, interval)
        ELSE IF "KILLER" \notin StrategyMembers
        THEN {Raise(E1, "AttributeError")}
        ELSE IF strat = "KILLER"
        THEN killer_strategy(E1, gs, my_snake, max_depth)
        ELSE basic_strategy(E1, gs, my_snake)

---------------------------------------------------------------------------
(* Direct calls of a_star *)

ObstacleSets(map_size) ==
    {o \in SUBSET Cells(map_size) : Cardinality(o) <= MaxObstacles}

AStarInputs ==
    UNION {[start : Cells(m), goal : Cells(m), obstacles : ObstacleSets(m),
            map_size : {m}, max_depth : 0..MaxDepthBound] : m \in MapSizes}

NotCalled == [called |-> FALSE, path |-> None]

\* one call a_star(start, goal, obstacles, map_size, max_depth)
AStarCall ==
    /\ ~as_out.called
    /\ as_out' = [called |-> TRUE,
                  path |-> a_star(as_in.start, as_in.goal, as_in.obstacles,
                                  as_in.map_size, as_in.max_depth)]
    /\ UNCHANGED <<as_in, engineVars, loopVars>>

---------------------------------------------------------------------------
(* Snapshots.  The game server is outside the engine: it owns the board,    *)
(* moves the snakes, and spawns and removes food between decision calls.    *)

Snake(id, dir, geometry) ==
    [id |-> id, direction |-> dir, geometry |-> geometry, status |-> "alive"]

Enemy(geometry, status) == [geometry |-> geometry, status |-> status]

\* boards the server is started with: extents, walls, enemies, the cells
\* where food appears, the cell and direction the controlled snake starts
\* with, and the max_search_depth the engine is constructed with there
Layouts ==
    { [map_size |-> <<3, 3, 1>>,
       fences |-> <<Point3D(2, 1, 0), Point3D(0, 1, 0)>>,
       enemies |-> <<>>,
       spots |-> {Point3D(1, 2, 0), Point3D(2, 2, 0), Point3D(0, 0, 0)},
       head |-> Point3D(1, 1, 0), dir |-> <<1, 0, 0>>, depth |-> 3],
      [map_size |-> <<3, 2, 1>>,
       fences |-> <<Point3D(1, 0, 0)>>,
       enemies |-> <<>>,
       spots |-> {Point3D(2, 0, 0), Point3D(1, 1, 0), Point3D(2, 1, 0)},
       head |-> Point3D(0, 0, 0), dir |-> <<0, 0, 0>>, depth |-> 2],
      [map_size |-> <<3, 2, 1>>,
       fences |-> <<>>,
       enemies |-> <<Enemy(<<Point3D(2, 1, 0), Point3D(2, 0, 0)>>, "alive")>>,
       spots |-> {Point3D(1, 0, 0), Point3D(0, 1, 0), Point3D(1, 1, 0)},
       head |-> Point3D(0, 0, 0), dir |-> <<0, 1, 0>>, depth |-> 3],
      [map_size |-> <<2, 2, 2>>,
       fences |-> <<Point3D(1, 0, 0)>>,
       enemies |-> <<Enemy(<<Point3D(1, 1, 1)>>, "dead")>>,
       spots |-> {Point3D(0, 0, 1), Point3D(1, 1, 0), Point3D(0, 1, 1)},
       head |-> Point3D(0, 0, 0), dir |-> <<0, 0, 0>>, depth |-> 2],
      [map_size |-> <<2, 1, 1>>,
       fences |-> <<Point3D(1, 0, 0)>>,
       enemies |-> <<>>,
       spots |-> {},
       head |-> Point3D(0, 0, 0), dir |-> <<0, 0, 0>>, depth |-> 1] }

\* the board a snapshot belongs to
LayoutOf(gs) ==
    CHOOSE l \in Layouts : /\ l.map_size = gs.map_size
                           /\ l.fences = gs.fences
                           /\ l.enemies = gs.enemies

\* strategy values handed to the constructor: the members of Strategy, and
\* the value the dispatcher compares with Strategy.KILLER
StrategyValues == StrategyMembers \cup {"KILLER"}

MySnake(gs) == gs.snakes[1]

Occupied(gs) ==
    FencePoints(gs) \cup BodyPoints(gs.enemies) \cup BodyPoints(gs.snakes)

FoodPoints(gs) == {gs.food[i].c : i \in 1..Len(gs.food)}

FreePoints(gs) ==
    {Point3D(c[1], c[2], c[3]) : c \in Cells(gs.map_size)} \ Occupied(gs)

FirstN(seq, n) == SubSeq(seq, 1, IF Len(seq) < n THEN Len(seq) ELSE n)

\* the snapshot changes: the value returned for the previous one has been
\* sent and is gone, the engine and the visualisation slots are untouched
Consumed ==
    /\ direction' = None
    /\ error' = "none"
    /\ UNCHANGED <<strategy, max_search_depth, target_change_interval,
                   current_target, steps_since_target_change, vis_target,
                   vis_route, searchVars, loopVars>>

\* a food appears on a free cell of the board's food spots
SpawnFood ==
    /\ Len(game_state.food) < MaxFood
    /\ \E p \in (FreePoints(game_state) \cap LayoutOf(game_state).spots)
                      \ FoodPoints(game_state) :
          game_state' = [game_state EXCEPT !.food = Append(@, Food(p, 1))]
    /\ Consumed

\* a food disappears (eaten by another snake, or expired)
RemoveFood ==
    /\ \E i \in 1..Len(game_state.food) :
          game_state' = [game_state EXCEPT !.food = RemoveAt(@, i)]
    /\ Consumed

\* the controlled snake advances one cell onto a free cell, eating the food
\* there, its body following
Advance ==
    /\ \E i \in 1..Len(possible_directions) :
          LET d == possible_directions[i]
              me == MySnake(game_state)
              h == me.geometry[1]
              p == Point3D(h.x + d[1], h.y + d[2], h.z + d[3])
          IN  /\ p \in FreePoints(game_state)
              /\ game_state' =
                    [game_state EXCEPT
                        !.snakes[1].geometry = FirstN(<<p>> \o @, MaxSnakeLen),
                        !.snakes[1].direction = d,
                        !.food = SelectSeq(@, LAMBDA f : f.c # p)]
    /\ Consumed

\* the controlled snake died and comes back on the board's starting cell,
\* one segment long and with no direction
Respawn ==
    /\ LET p == LayoutOf(game_state).head
       IN  /\ p \in FreePoints(game_state) \ FoodPoints(game_state)
           /\ game_state' =
                 [game_state EXCEPT !.snakes[1].geometry = <<p>>,
                                    !.snakes[1].direction = <<0, 0, 0>>]
    /\ Consumed

---------------------------------------------------------------------------
(* Decision calls *)

EngineState ==
    [current_target |-> current_target, steps |-> steps_since_target_change,
     vis_target |-> vis_target, vis_route |-> vis_route]

\* the call with outcome o ends: the engine fields and the visualizer slots
\* as the call left them, and the value returned or the exception raised
Ends(o) ==
    /\ current_target' = o.eng.current_target
    /\ steps_since_target_change' = o.eng.steps
    /\ vis_target' = o.eng.vis_target
    /\ vis_route' = o.eng.vis_route
    /\ direction' = o.ret
    /\ error' = o.error
    /\ UNCHANGED <<strategy, max_search_depth, target_change_interval,
                   game_state, searchVars>>

\* a call made outside the turn loop
Outcome(o) == Ends(o) /\ UNCHANGED loopVars

\* a decision call has returned or raised on the current snapshot
Decided == direction # None \/ error # "none"

\* decision_maker.decide_move(game_state, my_snake, visualization)
DecideMove ==
    /\ steps_since_target_change < MaxSteps
    /\ \E o \in decide_move(EngineState, strategy, game_state,
                            MySnake(game_state), max_search_depth,
                            target_change_interval) : Outcome(o)

\* decision_maker.killer_strategy(game_state, my_snake, visualization),
\* called on an engine configured for pursuit
KillerStrategy ==
    /\ strategy = "KILLER"
    /\ \E o \in killer_strategy(EngineState, game_state, MySnake(game_state),
                                max_search_depth) : Outcome(o)

InitSearch ==
    /\ as_in \in AStarInputs
    /\ as_out = NotCalled

\* bot_logic is not running
IdleLoop ==
    loop = [pc |-> "off", fetched |-> "nothing", my_snake |-> None,
            calls |-> 0, sends |-> 0, sent |-> None]

IdleSearch ==
    /\ as_in = [start |-> <<0, 0, 0>>, goal |-> <<0, 0, 0>>, obstacles |-> {},
                map_size |-> <<3, 3, 1>>, max_depth |-> 0]
    /\ as_out = [called |-> TRUE, path |-> <<<<0, 0, 0>>>>]

\* DecisionMaker(strategy, max_search_depth) and Visualization() on a board
InitEngine ==
    /\ strategy \in StrategyValues
    /\ target_change_interval = DefaultTargetChangeInterval
    /\ current_target = None
    /\ steps_since_target_change = target_change_interval
    /\ vis_target = None
    /\ vis_route = None
    /\ \E l \in Layouts :
          /\ max_search_depth = l.depth
          /\ game_state = [map_size |-> l.map_size, fences |-> l.fences,
                           snakes |-> <<Snake("a", l.dir, <<l.head>>)>>,
                           enemies |-> l.enemies, food |-> <<>>]
    /\ direction = None
    /\ error = "none"

\* an engine that is constructed and never called
IdleEngine ==
    /\ InitEngine
    /\ strategy = "BASIC"
    /\ game_state.map_size = <<2, 2, 2>>

Init == InitEngine /\ IdleSearch /\ IdleLoop

Next ==
    \/ DecideMove
    \/ KillerStrategy
    \/ SpawnFood
    \/ RemoveFood
    \/ Advance
    \/ Respawn

Spec == Init /\ [][Next]_vars

InitAStar == IdleEngine /\ InitSearch /\ IdleLoop

NextAStar == AStarCall

SpecAStar == InitAStar /\ [][NextAStar]_vars

---------------------------------------------------------------------------
(* Properties of the path search *)

\* cells one move away from c that a path may enter
OpenNeighbours(c, obstacles, map_size) ==
    {n \in Cells(map_size) \ obstacles : heuristic(c, n) = 1}

\* breadth-first layers: k is the distance of the cells of frontier
RECURSIVE TrueDistanceFrom(_, _, _, _, _, _)
TrueDistanceFrom(reached, frontier, k, goal, obstacles, map_size) ==
    IF goal \in frontier THEN k
    ELSE IF frontier = {} THEN -1
    ELSE LET next == UNION {OpenNeighbours(c, obstacles, map_size) :
                            c \in frontier} \ reached
         IN  TrueDistanceFrom(reached \cup next, next, k + 1, goal, obstacles,
                              map_size)

\* number of moves of a shortest path from start to goal over the
\* 6-connected grid that enters no obstacle; -1 if there is none
TrueDistance(start, goal, obstacles, map_size) ==
    TrueDistanceFrom({start}, {start}, 0, goal, obstacles, map_size)

\* C3: a_star returns a path with as many moves as the true shortest path
\* whenever that length is at most max_depth, and no path when the shortest
\* path is longer than max_depth or there is none
AStarShortestWithinDepth ==
    as_out.called =>
        LET d == TrueDistance(as_in.start, as_in.goal, as_in.obstacles,
                              as_in.map_size)
        IN  IF d # -1 /\ d <= as_in.max_depth
            THEN as_out.path # None /\ Len(as_out.path) - 1 = d
            ELSE as_out.path = None

\* a_star returned a path of exactly max_depth moves that is longer than
\* the Manhattan distance, obstacles forcing the detour
AStarDetourFound ==
    /\ as_out.called
    /\ as_out.path # None
    /\ Len(as_out.path) - 1 = as_in.max_depth
    /\ Len(as_out.path) - 1 > heuristic(as_in.start, as_in.goal)

\* C4: a path a_star returns starts at start, ends at goal, advances by one
\* unit on one axis at every step, and after the start enters no obstacle
\* and stays inside the map extents
AStarPathValid ==
    (as_out.called /\ as_out.path # None) =>
        LET path == as_out.path
        IN  /\ path[1] = as_in.start
            /\ path[Len(path)] = as_in.goal
            /\ \A i \in 1..(Len(path) - 1) : heuristic(path[i], path[i + 1]) = 1
            /\ \A i \in 2..Len(path) : /\ path[i] \notin as_in.obstacles
                                       /\ path[i] \in Cells(as_in.map_size)

\* a_star returned a path that moves on all three axes, with an obstacle
\* next to the start and another next to the goal
AStarPathInSpace ==
    /\ as_out.called
    /\ as_out.path # None
    /\ \E o \in as_in.obstacles : heuristic(o, as_in.start) = 1
    /\ \E o \in as_in.obstacles : heuristic(o, as_in.goal) = 1
    /\ \A a \in 1..3 : as_in.start[a] # as_in.goal[a]

---------------------------------------------------------------------------
(* Properties of the decision calls *)

Range(seq) == {seq[i] : i \in 1..Len(seq)}

UnitDirections == Range(possible_directions)

Me == MySnake(game_state)

HeadPoint == Me.geometry[1]

SafeSet == Range(get_safe_directions(game_state, Me))

\* obstacle set of a Search-Forage call on the current snapshot
ForageObstacles ==
    get_obstacles_within_radius(game_state, Me, HeadPoint, max_search_depth)

\* number of moves from the head to the point p around the obstacles of a
\* Search-Forage call; -1 if there is no way
MovesTo(p) ==
    TrueDistance(AsTuple(HeadPoint), AsTuple(p), ForageObstacles,
                 game_state.map_size)

\* a way of at most max_search_depth moves leads from the head to p
Reachable(p) == MovesTo(p) \in 0..max_search_depth

\* C1: the value a decision call returns has exactly one nonzero component,
\* which is -1 or 1; it is the all-zero vector only when the snake has no
\* current direction and no safe move exists
DirectionValid ==
    (Decided /\ error = "none") =>
        \/ direction \in UnitDirections
        \/ /\ direction = <<0, 0, 0>>
           /\ Me.direction = <<0, 0, 0>>
           /\ SafeSet = {}

\* C2: after a Search-Forage call the persisted target, if there is one,
\* lies on a position of the snapshot's food list: a target whose food is
\* gone has been replaced or cleared and no path to it is followed
StaleTargetDropped ==
    (Decided /\ strategy = "ADVANCED" /\ current_target # None) =>
        current_target[1].c \in FoodPoints(game_state)

\* C5: a Search-Forage call that finds the persisted target present in the
\* food list, within radius and reachable keeps that target, whatever the
\* step counter and whatever nearer food the snapshot holds
TargetKeptWhileValid ==
    [][(/\ strategy = "ADVANCED"
        /\ Decided'
        /\ current_target # None
        /\ current_target[1] \in Range(game_state.food)
        /\ manhattan_distance(HeadPoint, current_target[1].c)
              <= max_search_depth
        /\ Reachable(current_target[1].c))
       => current_target' = current_target]_vars

\* the target has been kept for target_change_interval calls after the call
\* that selected it although a food strictly nearer to the head is in the
\* snapshot
TargetKeptOverNearerFood ==
    /\ strategy = "ADVANCED"
    /\ Decided
    /\ target_change_interval = 5
    /\ steps_since_target_change >= target_change_interval
    /\ current_target # None
    /\ current_target[1] \in Range(game_state.food)
    /\ \E f \in Range(game_state.food) :
          /\ manhattan_distance(HeadPoint, f.c)
                < manhattan_distance(HeadPoint, current_target[1].c)
          /\ Reachable(f.c)

\* the scenario of the fallback chain: 3x3x1 map, head (1,1,0), no food, no
\* enemies, walls at (2,1,0) and (0,1,0), current direction [1,0,0]
FallbackScenario ==
    /\ game_state.map_size = <<3, 3, 1>>
    /\ HeadPoint = Point3D(1, 1, 0)
    /\ game_state.food = <<>>
    /\ game_state.enemies = <<>>
    /\ FencePoints(game_state) = {Point3D(2, 1, 0), Point3D(0, 1, 0)}
    /\ Me.direction = <<1, 0, 0>>

\* C6: in the fallback scenario Greedy-Safe returns a safe direction, which
\* is neither [1,0,0] nor [-1,0,0]
GreedySafeWithoutFood ==
    (Decided /\ strategy = "BASIC" /\ FallbackScenario) =>
        /\ direction \in SafeSet
        /\ direction \notin {<<1, 0, 0>>, <<-1, 0, 0>>}

\* the foods of the snapshot at Manhattan distance d from the head to which
\* a way of at most max_search_depth moves exists, in list order
ReachableFoodAt(d) ==
    SelectSeq(game_state.food,
              LAMBDA f : manhattan_distance(HeadPoint, f.c) = d
                         /\ Reachable(f.c))

\* the call on the current snapshot selects a new target: the persisted one
\* is missing, out of radius or unreachable and the step counter allows it
SelectionDue ==
    /\ strategy = "ADVANCED"
    /\ steps_since_target_change + 1 >= target_change_interval
    /\ \/ current_target = None
       \/ manhattan_distance(HeadPoint, current_target[1].c)
             > max_search_depth
       \/ ~Reachable(current_target[1].c)

\* C7: with R = max_search_depth, a food at Manhattan distance exactly R is a
\* candidate and one at distance R + 1 is not; a call that selects a target
\* while a food at distance R is reachable and no nearer food is takes the
\* first such food of the list; no call leaves a target beyond distance R
RadiusBoundary ==
    [][/\ \A f \in Range(game_state.food) :
             LET d == manhattan_distance(HeadPoint, f.c)
                 candidates ==
                     Range(find_food_within_radius(HeadPoint, game_state.food,
                                                   max_search_depth))
             IN  /\ d = max_search_depth => f \in candidates
                 /\ d = max_search_depth + 1 => f \notin candidates
       /\ (/\ SelectionDue
           /\ Decided'
           /\ ReachableFoodAt(max_search_depth) # <<>>
           /\ \A d \in 0..(max_search_depth - 1) : ReachableFoodAt(d) = <<>>)
          => current_target' = Some(ReachableFoodAt(max_search_depth)[1])
       /\ (strategy = "ADVANCED" /\ Decided' /\ current_target' # None)
          => manhattan_distance(HeadPoint, current_target'[1].c)
                <= max_search_depth]_vars

\* a call has just selected a food exactly max_search_depth away while the
\* snapshot also holds a food one cell farther
TargetOnRadius ==
    /\ strategy = "ADVANCED"
    /\ Decided
    /\ steps_since_target_change = 0
    /\ current_target # None
    /\ manhattan_distance(HeadPoint, current_target[1].c) = max_search_depth
    /\ \E f \in Range(game_state.food) :
          manhattan_distance(HeadPoint, f.c) = max_search_depth + 1

\* heads of the enemies within max_search_depth of the controlled head
EnemyHeadsInRadius ==
    {e.geometry[1] : e \in {e \in Range(game_state.enemies) :
        /\ e.geometry # <<>>
        /\ manhattan_distance(HeadPoint, e.geometry[1]) <= max_search_depth}}

\* moves from the point p to the point q around the obstacles in radius,
\* the enemy heads in radius not counting as obstacles
PursuitMoves(p, q) ==
    TrueDistance(AsTuple(p), AsTuple(q),
                 ForageObstacles \ {AsTuple(h) : h \in EnemyHeadsInRadius},
                 game_state.map_size)

\* C9: when an enemy head within radius can be reached in at most
\* max_search_depth moves once the enemy heads are taken out of the obstacle
\* set, killer_strategy makes such a head the target and returns the first
\* step of a shortest way to it
PursuitReachesHead ==
    (/\ Decided /\ strategy = "KILLER" /\ error = "none"
     /\ \E h \in EnemyHeadsInRadius :
           PursuitMoves(HeadPoint, h) \in 1..max_search_depth)
    => /\ current_target # None
       /\ current_target[1] \in EnemyHeadsInRadius
       /\ direction \in UnitDirections
       /\ LET next == Point3D(HeadPoint.x + direction[1],
                              HeadPoint.y + direction[2],
                              HeadPoint.z + direction[3])
          IN  PursuitMoves(next, current_target[1])
                 = PursuitMoves(HeadPoint, current_target[1]) - 1

\* outcomes of the policy that matches the strategy value strat
PolicyOutcomes(strat, E) ==
    IF strat = "ADVANCED"
    THEN advanced_strategy(E, game_state, Me, max_search_depth,
                           target_change_interval)
    ELSE IF strat = "KILLER"
    THEN killer_strategy(E, game_state, Me, max_search_depth)
    ELSE basic_strategy(E, game_state, Me)

\* C10: a call of decide_move (the step counter moves) ends by returning a
\* direction, and what it returns and leaves behind is an outcome of the
\* policy matching the configured strategy: basic_strategy for BASIC and
\* for a value that is no strategy, advanced_strategy for ADVANCED,
\* killer_strategy for KILLER
DispatcherRunsPolicy ==
    [][(Decided' /\ steps_since_target_change' # steps_since_target_change)
       => /\ error' = "none"
          /\ \E o \in PolicyOutcomes(strategy,
                                     [EngineState EXCEPT !.steps = @ + 1]) :
                /\ direction' = o.ret
                /\ EngineState' = o.eng]_vars

---------------------------------------------------------------------------
(* Properties of the fallback *)

\* the call on the current snapshot was a Search-Forage call that returned
Foraged == strategy = "ADVANCED" /\ Decided /\ error = "none"

\* C11: a Search-Forage call that ends with no target returns a member of
\* the one-step safe-direction set if that set is not empty, and otherwise
\* one of the six unit directions
FallbackDirection ==
    (Foraged /\ current_target = None) =>
        IF SafeSet # {} THEN direction \in SafeSet
        ELSE direction \in UnitDirections

\* C12: when no neighbouring cell of the head is free, a Greedy or a
\* Search-Forage call raises nothing and returns the snake's current
\* direction unchanged
BoxedInKeepsDirection ==
    (Decided /\ strategy \in {"BASIC", "ADVANCED"} /\ SafeSet = {}) =>
        /\ error = "none"
        /\ direction = Me.direction


---------------------------------------------------------------------------
(* Properties of the obstacle index *)

\* the cell c holds a wall of the snapshot
OnWall(c) ==
    \E i \in DOMAIN game_state.fences :
        <<game_state.fences[i].x, game_state.fences[i].y,
          game_state.fences[i].z>> = c

\* the cell c holds a segment of an enemy whose status is in statuses
OnEnemy(c, statuses) ==
    \E i \in DOMAIN game_state.enemies :
        /\ game_state.enemies[i].status \in statuses
        /\ \E j \in DOMAIN game_state.enemies[i].geometry :
              LET p == game_state.enemies[i].geometry[j]
              IN  <<p.x, p.y, p.z>> = c

\* the cell c holds a segment of a snake of the snapshot, the controlled
\* one included
OnSnake(c) ==
    \E i \in DOMAIN game_state.snakes :
        \E j \in DOMAIN game_state.snakes[i].geometry :
            LET p == game_state.snakes[i].geometry[j]
            IN  <<p.x, p.y, p.z>> = c

\* Manhattan distance from the head to the cell c
FromHead(c) ==
    Abs(c[1] - HeadPoint.x) + Abs(c[2] - HeadPoint.y) + Abs(c[3] - HeadPoint.z)

\* C13: the obstacle set of a Search-Forage call holds no cell that is
\* occupied only by segments of dead enemies
DeadEnemyPassable ==
    Foraged =>
        \A c \in Cells(game_state.map_size) :
            (/\ OnEnemy(c, {"dead"})
             /\ ~OnEnemy(c, {"alive"})
             /\ ~OnWall(c)
             /\ ~OnSnake(c))
            => c \notin ForageObstacles

\* C14: for every radius R, get_obstacles_within_radius on the snapshot of
\* a decision call is exactly the set of the cells that hold a wall, an
\* enemy segment or a snake segment (the controlled snake's too) and lie at
\* Manhattan distance at most R from the head
ObstaclesExact ==
    Decided =>
        \A R \in 0..(MaxDepthBound + 1) :
            get_obstacles_within_radius(game_state, Me, HeadPoint, R)
               = {c \in Cells(game_state.map_size) :
                     /\ OnWall(c) \/ OnEnemy(c, {"alive", "dead"})
                           \/ OnSnake(c)
                     /\ FromHead(c) <= R}

\* a Search-Forage call has run on a snapshot where the obstacle set holds
\* a wall and the segment of the controlled snake behind its head, and
\* leaves out an enemy segment farther than max_search_depth
ObstaclesNearAndFar ==
    /\ Foraged
    /\ \E w \in ForageObstacles : OnWall(w)
    /\ \E b \in ForageObstacles : OnSnake(b) /\ FromHead(b) = 1
    /\ \E far \in Cells(game_state.map_size) \ ForageObstacles :
          /\ OnEnemy(far, {"alive", "dead"})
          /\ FromHead(far) > max_search_depth

---------------------------------------------------------------------------
(* Properties of the greedy policy *)

\* Manhattan distance from the head to the i-th food of the snapshot
FoodDistance(i) ==
    FromHead(<<game_state.food[i].c.x, game_state.food[i].c.y,
               game_state.food[i].c.z>>)

\* C15: the goal of a Greedy call is the food of least Manhattan distance
\* to the head over the whole food list, the first of the list among equally
\* near ones; with an empty food list there is no goal and the call returns
\* the snake's current direction
GreedyGoalNearest ==
    (Decided /\ strategy = "BASIC") =>
        /\ error = "none"
        /\ IF game_state.food = <<>>
           THEN vis_target = None /\ direction = Me.direction
           ELSE \E i \in DOMAIN game_state.food :
                   /\ vis_target = Some(game_state.food[i])
                   /\ \A j \in DOMAIN game_state.food :
                         /\ FoodDistance(i) <= FoodDistance(j)
                         /\ j < i => FoodDistance(i) < FoodDistance(j)

\* a Greedy call has taken the first of two equally near foods as its goal
GreedyTieFirst ==
    /\ Decided /\ strategy = "BASIC"
    /\ Len(game_state.food) = 2
    /\ FoodDistance(1) = FoodDistance(2)
    /\ vis_target = Some(game_state.food[1])

---------------------------------------------------------------------------
(* Properties of the blocked directions *)

Opposite(d) == <<-d[1], -d[2], -d[3]>>

\* C16: after a decision call has selected a move that does not reverse the
\* snake's current direction, the opposite of that move is in the engine's
\* set of blocked directions with a positive remaining-turns counter
OppositeBlockedAfterMove ==
    [][(/\ Decided'
        /\ steps_since_target_change' # steps_since_target_change
        /\ direction' \in UnitDirections
        /\ direction' # Opposite(Me.direction))
       => /\ Opposite(direction') \in DOMAIN blocked_directions(EngineState')
          /\ blocked_directions(EngineState')[Opposite(direction')] > 0]_vars

---------------------------------------------------------------------------
(* Properties of the target selection *)

\* the cells a path may not enter at a Search-Forage call: those holding a
\* wall, an enemy segment or a snake segment within max_search_depth of the
\* head
Blocked ==
    {c \in Cells(game_state.map_size) :
        /\ OnWall(c) \/ OnEnemy(c, {"alive", "dead"}) \/ OnSnake(c)
        /\ FromHead(c) <= max_search_depth}

\* number of moves of a shortest way from the cell a to the point p around
\* the blocked cells; -1 if there is none
Moves(a, p) ==
    TrueDistance(a, <<p.x, p.y, p.z>>, Blocked, game_state.map_size)

HeadCell == <<HeadPoint.x, HeadPoint.y, HeadPoint.z>>

\* a_star can find a path from the head to p: one of at most
\* max_search_depth moves exists
HasPath(p) == Moves(HeadCell, p) \in 0..max_search_depth

\* the persisted target, if any, is out of radius or has no path
NoValidTarget ==
    \/ current_target = None
    \/ FromHead(<<current_target[1].c.x, current_target[1].c.y,
                  current_target[1].c.z>>) > max_search_depth
    \/ ~HasPath(current_target[1].c)

\* indexes of the foods within radius that have a path
Eligible ==
    {i \in DOMAIN game_state.food :
        FoodDistance(i) <= max_search_depth /\ HasPath(game_state.food[i].c)}

\* the call ends with the nearest eligible food (the first of the list among
\* equally near ones) as persisted target, the dwell counter at 0 and the
\* first step of a shortest way to it returned
NearestEligibleSelected ==
    \E i \in Eligible :
        /\ \A j \in Eligible : /\ FoodDistance(i) <= FoodDistance(j)
                               /\ j < i => FoodDistance(i) < FoodDistance(j)
        /\ current_target' = Some(game_state.food[i])
        /\ steps_since_target_change' = 0
        /\ direction' \in UnitDirections
        /\ Moves(<<HeadPoint.x + direction'[1], HeadPoint.y + direction'[2],
                   HeadPoint.z + direction'[3]>>, game_state.food[i].c)
              = Moves(HeadCell, game_state.food[i].c) - 1

\* a Search-Forage call is made
ForageCall ==
    /\ strategy = "ADVANCED"
    /\ Decided'
    /\ steps_since_target_change' # steps_since_target_change

\* C17: whenever a Search-Forage call finds no valid persisted target and
\* some food within radius has a path, it ends with the nearest such food as
\* target, the dwell counter at 0, and returns the first step of the path
SelectsWheneverInvalid ==
    [][(ForageCall /\ NoValidTarget /\ Eligible # {})
       => NearestEligibleSelected]_vars

\* the cell of the persisted target
TargetCell ==
    <<current_target[1].c.x, current_target[1].c.y, current_target[1].c.z>>

\* C18: a Search-Forage call that finds the persisted target farther than
\* max_search_depth from the head, or without a path under the call's
\* obstacles, ends with that target cleared or replaced, whatever the value
\* of steps_since_target_change
InvalidTargetDropped ==
    [][(/\ ForageCall
        /\ current_target # None
        /\ \/ FromHead(TargetCell) > max_search_depth
           \/ ~HasPath(current_target[1].c))
       => current_target' # current_target]_vars

\* a call has cleared the target while the dwell counter had not reached
\* target_change_interval since the selection of that target
DroppedBeforeDwell ==
    /\ Foraged
    /\ current_target = None
    /\ steps_since_target_change \in 1..(target_change_interval - 1)


\* C19: a Search-Forage call on a snapshot with no food within
\* max_search_depth of the head ends with no persisted target and returns a
\* fallback direction (a safe one if there is any), whatever target was
\* persisted before
NoFoodInRadiusClears ==
    (Foraged /\ \A i \in DOMAIN game_state.food :
                    FoodDistance(i) > max_search_depth)
    => /\ current_target = None
       /\ SafeSet # {} => direction \in SafeSet


\* C20: after a Search-Forage call a persisted target is at most
\* max_search_depth from the head and has a path under the obstacles of
\* that call
PersistedTargetValid ==
    (Foraged /\ current_target # None) =>
        /\ FromHead(TargetCell) <= max_search_depth
        /\ HasPath(current_target[1].c)

\* a call later than the one that selected it has kept a target that is
\* exactly max_search_depth away, with a wall next to the head
KeptTargetOnRadius ==
    /\ Foraged
    /\ current_target # None
    /\ steps_since_target_change >= 1
    /\ FromHead(TargetCell) = max_search_depth
    /\ \E w \in Blocked : OnWall(w) /\ FromHead(w) = 1


---------------------------------------------------------------------------
(* Properties of the dwell counter *)

\* C21: every Search-Forage call either adds one to
\* steps_since_target_change and sets no new target, or sets a new target
\* and leaves the counter at 0, and the latter only when the counter, this
\* call's increment included, has reached target_change_interval; between
\* the calls the counter does not move.  Two calls that set a new target are
\* therefore at least target_change_interval calls apart
DwellCounterGatesSelection ==
    [][strategy = "ADVANCED" =>
          IF Decided'
          THEN \/ /\ steps_since_target_change' = steps_since_target_change + 1
                  /\ current_target' \in {current_target, None}
               \/ /\ steps_since_target_change' = 0
                  /\ steps_since_target_change + 1 >= target_change_interval
                  /\ current_target' # None
                  /\ current_target' # current_target
          ELSE steps_since_target_change' = steps_since_target_change]_vars

\* a call has just set a new target after an earlier target had been
\* followed along a route
SecondTargetSelected ==
    /\ Foraged
    /\ steps_since_target_change = 0
    /\ current_target # None
    /\ vis_route # None
    /\ vis_route[Len(vis_route)] # TargetCell


---------------------------------------------------------------------------
(* Properties of the greedy move *)

\* the cell of the goal of a Greedy call, as written to the visualizer
GoalCell == <<vis_target[1].c.x, vis_target[1].c.y, vis_target[1].c.z>>

\* the axes on which the goal differs from the head
DifferingAxes == {a \in 1..3 : GoalCell[a] # HeadCell[a]}

\* one unit along the axis a toward the goal
TowardGoal(a) ==
    [b \in 1..3 |-> IF b # a THEN 0
                    ELSE IF GoalCell[a] > HeadCell[a] THEN 1 ELSE -1]

\* a Greedy call has returned with a food as goal
GreedyWithGoal ==
    Decided /\ strategy = "BASIC" /\ error = "none" /\ vis_target # None

\* C22: when the goal of a Greedy call differs from the head on more than
\* one axis and every unit move toward the goal is safe, the call returns
\* the unit move toward the goal along the first differing axis in the
\* order x, y, z
GreedyFirstDifferingAxis ==
    (/\ GreedyWithGoal
     /\ Cardinality(DifferingAxes) > 1
     /\ \A a \in DifferingAxes : TowardGoal(a) \in SafeSet)
    => \E a \in DifferingAxes :
          /\ \A b \in DifferingAxes : a <= b
          /\ direction = TowardGoal(a)

\* a Greedy call has moved along y toward a goal that differs from the head
\* on y and z, both moves being safe
GreedyMovedAlongY ==
    /\ GreedyWithGoal
    /\ DifferingAxes = {2, 3}
    /\ \A a \in DifferingAxes : TowardGoal(a) \in SafeSet
    /\ direction = TowardGoal(2)


\* the order in which the directions are tried
DirectionOrder ==
    << <<1, 0, 0>>, <<-1, 0, 0>>, <<0, 1, 0>>, <<0, -1, 0>>, <<0, 0, 1>>,
       <<0, 0, -1>> >>

\* the direction basic_strategy would like to take: one unit toward the
\* goal on every differing axis
Desired == [a \in 1..3 |-> IF a \in DifferingAxes THEN TowardGoal(a)[a] ELSE 0]

\* Manhattan distance to the goal of the cell one move in direction d away
\* from the head
DistanceAfter(d) ==
    Abs(HeadCell[1] + d[1] - GoalCell[1]) + Abs(HeadCell[2] + d[2] - GoalCell[2])
    + Abs(HeadCell[3] + d[3] - GoalCell[3])

\* C23: a Greedy call with a goal whose desired direction is not safe, while
\* some direction is, returns the safe direction after which the head is
\* nearest to the goal, the earliest in the order +x, -x, +y, -y, +z, -z
\* among equally good ones
GreedyBestSafeAlternative ==
    (GreedyWithGoal /\ Desired \notin SafeSet /\ SafeSet # {})
    => \E i \in 1..6 :
          /\ direction = DirectionOrder[i]
          /\ direction \in SafeSet
          /\ \A j \in 1..6 :
                DirectionOrder[j] \in SafeSet =>
                   /\ DistanceAfter(DirectionOrder[i])
                         <= DistanceAfter(DirectionOrder[j])
                   /\ j < i => DistanceAfter(DirectionOrder[i])
                                  < DistanceAfter(DirectionOrder[j])

\* a Greedy call that finds a move toward its goal unsafe has chosen, among
\* several safe directions, one that is not the first of the order
GreedySidestep ==
    /\ GreedyWithGoal
    /\ \E a \in DifferingAxes : TowardGoal(a) \notin SafeSet
    /\ Desired \notin SafeSet
    /\ direction \in SafeSet
    /\ \E j \in 1..6 : /\ DirectionOrder[j] \in SafeSet
                       /\ DirectionOrder[j] # direction
                       /\ \A i \in 1..6 : direction = DirectionOrder[i] => j < i

---------------------------------------------------------------------------
(* Search-Forage in a world that offers food at every call *)

\* a Search-Forage call on a snapshot in which some food within
\* max_search_depth of the head has a path
FedDecideMove ==
    /\ Eligible # {}
    /\ DecideMove

InitFed == Init /\ strategy = "ADVANCED"

NextFed ==
    \/ FedDecideMove
    \/ SpawnFood
    \/ RemoveFood
    \/ Advance
    \/ Respawn

\* the engine configured for Search-Forage, called only on snapshots that
\* hold a food within radius with a path
SpecFed == InitFed /\ [][NextFed]_vars

\* C24: if every call finds some food within radius with a path, the first
\* call ends with a target, and a call that ends without target is at most
\* the (target_change_interval - 1)-th since the last selection, so no more
\* than target_change_interval - 1 calls in a row end without target
NeverLongWithoutTarget ==
    Foraged =>
        \/ current_target # None
        \/ steps_since_target_change \in 1..(target_change_interval - 1)

\* the (target_change_interval - 1)-th call in a row has ended without
\* target although a food with a path was there
LongestTimeWithoutTarget ==
    /\ Foraged
    /\ current_target = None
    /\ steps_since_target_change = target_change_interval - 1
    /\ Eligible # {}


---------------------------------------------------------------------------
(* Search-Forage in a static world: nothing changes but the controlled      *)
(* snake, which advances by each returned direction                         *)

\* the ordered food lists of at most MaxFood foods on distinct spots
FoodLists(spots) ==
    {<<>>} \cup {<<Food(p, 1)>> : p \in spots}
    \cup {fl \in {<<Food(p, 1), Food(q, 1)>> : p \in spots, q \in spots} :
             fl[1] # fl[2]}

\* a Search-Forage engine is constructed on a board that holds its food
\* already, the controlled snake being one segment on any free cell
InitFollow ==
    /\ strategy = "ADVANCED"
    /\ target_change_interval = DefaultTargetChangeInterval
    /\ current_target = None
    /\ steps_since_target_change = target_change_interval
    /\ vis_target = None
    /\ vis_route = None
    /\ \E l \in Layouts :
          /\ max_search_depth = l.depth
          /\ \E food \in FoodLists(l.spots), c \in Cells(l.map_size) :
                LET h == Point3D(c[1], c[2], c[3])
                IN  /\ h \notin Range(l.fences) \cup BodyPoints(l.enemies)
                    /\ h \notin {food[i].c : i \in 1..Len(food)}
                    /\ game_state =
                          [map_size |-> l.map_size, fences |-> l.fences,
                           snakes |-> <<Snake("a", <<0, 0, 0>>, <<h>>)>>,
                           enemies |-> l.enemies, food |-> food]
    /\ direction = None
    /\ error = "none"
    /\ IdleSearch
    /\ IdleLoop

\* send_move(my_snake.id, direction) and the server's next tick: the snake
\* advances one cell in the direction sent, its body following; it eats the
\* food on that cell
Follow ==
    /\ Decided
    /\ error = "none"
    /\ direction \in Range(possible_directions)
    /\ LET me == MySnake(game_state)
           h == me.geometry[1]
           p == Point3D(h.x + direction[1], h.y + direction[2],
                        h.z + direction[3])
       IN  /\ p \in FreePoints(game_state)
           /\ game_state' =
                 [game_state EXCEPT
                     !.snakes[1].geometry = FirstN(<<p>> \o @, MaxSnakeLen),
                     !.snakes[1].direction = direction,
                     !.food = SelectSeq(@, LAMBDA f : f.c # p)]
    /\ Consumed

\* the turn loop calls decide_move once on each snapshot it fetched
FollowDecideMove ==
    /\ ~Decided
    /\ DecideMove

NextFollow ==
    \/ FollowDecideMove
    \/ Follow

SpecFollow == InitFollow /\ [][NextFollow]_vars

\* a call has ended with a persisted target away from the head
Tracking ==
    Foraged /\ current_target # None /\ HeadCell # TargetCell

\* length of the shortest path from the head to the persisted target under
\* the obstacles of a call on the current snapshot; -1 if there is none
PathLength == Moves(HeadCell, current_target[1].c)

\* C25: in the static world, a call that ends with a persisted target away
\* from the head returns a move onto a free cell, and when the snake has made
\* that move the shortest path to the target is at least one move shorter
\* than at the call; so a target persisted with a path of k moves is
\* reached after at most k calls
PathShortensWhileFollowed ==
    [][/\ Tracking' => /\ PathLength' \in 1..max_search_depth
                       /\ direction' \in SafeSet'
       /\ (Tracking /\ game_state' # game_state)
          => /\ PathLength' >= 0
             /\ PathLength' <= PathLength - 1]_vars

\* the head has arrived on the cell of a target that was max_search_depth
\* moves away when it was selected
TargetReached ==
    /\ strategy = "ADVANCED"
    /\ ~Decided
    /\ current_target # None
    /\ HeadCell = TargetCell
    /\ steps_since_target_change = max_search_depth - 1
    /\ max_search_depth >= 2


---------------------------------------------------------------------------
(* Properties of the returned move *)

\* the cell c is inside the map and holds no wall, no enemy segment and no
\* snake segment
FreeCell(c) ==
    /\ c \in Cells(game_state.map_size)
    /\ ~OnWall(c)
    /\ ~OnEnemy(c, {"alive", "dead"})
    /\ ~OnSnake(c)

\* the cell one move in direction d away from the head
CellAfter(d) ==
    <<HeadCell[1] + d[1], HeadCell[2] + d[2], HeadCell[3] + d[3]>>

\* C26: with max_search_depth >= 1, a Search-Forage call on a snapshot where
\* some neighbouring cell of the head is free returns the all-zero vector or
\* a unit move onto a free cell inside the map; the unchecked current
\* direction comes back only when no neighbouring cell is free
ForageMoveIsSafe ==
    (/\ Foraged
     /\ max_search_depth >= 1
     /\ \E i \in 1..6 : FreeCell(CellAfter(DirectionOrder[i]))
     /\ direction # <<0, 0, 0>>)
    => /\ \E i \in 1..6 : direction = DirectionOrder[i]
       /\ FreeCell(CellAfter(direction))

\* a call has returned a step toward its target while the snake's current
\* direction points at an occupied cell or out of the map
SafeStepInsteadOfCurrent ==
    /\ Foraged
    /\ current_target # None
    /\ direction \in UnitDirections
    /\ Me.direction \in UnitDirections
    /\ ~FreeCell(CellAfter(Me.direction))
    /\ \E i \in 1..6 : LET c == CellAfter(DirectionOrder[i])
                       IN  c \in Cells(game_state.map_size) /\ OnWall(c)


---------------------------------------------------------------------------
(* Properties of the visualizer slots *)

\* C27: after a Search-Forage call the visualizer's target slot holds what
\* the engine holds as persisted target (nothing, or the same food), and a
\* route in the route slot ends on the position of that target
VisualizerAgrees ==
    Foraged =>
        /\ vis_target = current_target
        /\ (vis_route # None /\ current_target # None)
           => vis_route[Len(vis_route)] = TargetCell

---------------------------------------------------------------------------
(* The turn loop *)

\* the snapshots the server can answer with after the snapshot gs: the same
\* board, a food more or less, the controlled snake moved by one cell, dead,
\* missing from the answer, or back on the board's starting cell
Snapshots(gs) ==
    LET alive == gs.snakes # <<>> /\ gs.snakes[1].status = "alive"
        start == LayoutOf([gs EXCEPT !.snakes = <<>>]).head
    IN  {gs}
        \cup {[gs EXCEPT !.food = Append(@, Food(p, 1))] :
                 p \in IF Len(gs.food) < MaxFood
                       THEN (FreePoints(gs) \cap LayoutOf(gs).spots)
                                \ FoodPoints(gs)
                       ELSE {}}
        \cup {[gs EXCEPT !.food = RemoveAt(@, i)] : i \in 1..Len(gs.food)}
        \cup {[gs EXCEPT !.snakes[1].geometry = <<p>>,
                         !.snakes[1].direction =
                             <<p.x - gs.snakes[1].geometry[1].x,
                               p.y - gs.snakes[1].geometry[1].y,
                               p.z - gs.snakes[1].geometry[1].z>>,
                         !.food = SelectSeq(@, LAMBDA f : f.c # p)] :
                 p \in IF alive
                       THEN {q \in FreePoints(gs) :
                               \E i \in 1..Len(possible_directions) :
                                  LET d == possible_directions[i]
                                      h == gs.snakes[1].geometry[1]
                                  IN  q = Point3D(h.x + d[1], h.y + d[2],
                                                  h.z + d[3])}
                       ELSE {}}
        \cup {[gs EXCEPT !.snakes[1].status = "dead"] :
                 u \in IF alive THEN {1} ELSE {}}
        \cup {[gs EXCEPT !.snakes = <<>>] : u \in IF alive THEN {1} ELSE {}}
        \cup {[gs EXCEPT !.snakes = <<Snake("a", <<0, 0, 0>>, <<start>>)>>] :
                 u \in IF ~alive /\ start \notin FoodPoints(gs)
                       THEN {1} ELSE {}}

\* the engine and the result of its last call stay as they are
EngineIdle ==
    UNCHANGED <<strategy, max_search_depth, target_change_interval,
                current_target, steps_since_target_change, vis_target,
                vis_route, direction, error, searchVars>>

\* my_snake.status == "dead", always false
DeadSnakeNever(s) == FALSE

\* my_snake.status == "dead"
DeadSnake(s) == s.status = "dead"

\* next((s for s in game_state.snakes if s.id == my_snake.id), my_snake)
SnakeById(gs, my_snake) ==
    IF \E i \in 1..Len(gs.snakes) : gs.snakes[i].id = my_snake.id
    THEN gs.snakes[CHOOSE i \in 1..Len(gs.snakes) :
                      /\ gs.snakes[i].id = my_snake.id
                      /\ \A j \in 1..(i - 1) : gs.snakes[j].id # my_snake.id]
    ELSE my_snake

\* the fetch before the loop: bot_logic returns when there is no state or no
\* snake in it, and otherwise controls the first snake of the state
InitialFetch ==
    /\ loop.pc = "start"
    /\ \/ /\ loop' = [loop EXCEPT !.pc = "stopped"]
          /\ UNCHANGED game_state
       \/ \E gs \in Snapshots(game_state) :
             /\ game_state' = gs
             /\ loop' = IF gs.snakes = <<>>
                        THEN [loop EXCEPT !.pc = "stopped"]
                        ELSE [loop EXCEPT !.pc = "fetch",
                                          !.my_snake = Some(gs.snakes[1])]
    /\ EngineIdle

\* get_game_state() returned None: the loop sleeps and fetches again
FetchFailed ==
    /\ loop.pc = "fetch"
    /\ loop' = [loop EXCEPT !.fetched = "none", !.calls = 0, !.sends = 0,
                            !.sent = None]
    /\ UNCHANGED game_state
    /\ EngineIdle

\* get_game_state() returned a state, and the loop looks its snake up in it
FetchState ==
    /\ loop.pc = "fetch"
    /\ \E gs \in Snapshots(game_state) :
          /\ game_state' = gs
          /\ loop' = [loop EXCEPT
                         !.pc = "check", !.fetched = "state",
                         !.my_snake = Some(SnakeById(gs, loop.my_snake[1])),
                         !.calls = 0, !.sends = 0, !.sent = None]
    /\ direction' = None
    /\ error' = "none"
    /\ UNCHANGED <<strategy, max_search_depth, target_change_interval,
                   current_target, steps_since_target_change, vis_target,
                   vis_route, searchVars>>

\* the snake is dead: the loop sleeps and fetches again
SkipDead ==
    /\ loop.pc = "check"
    /\ DeadSnake(loop.my_snake[1])
    /\ loop' = [loop EXCEPT !.pc = "fetch"]
    /\ UNCHANGED game_state
    /\ EngineIdle

\* direction = decision_maker.decide_move(game_state, my_snake, visualization);
\* an exception ends the thread
CallDecide ==
    /\ loop.pc = "check"
    /\ ~DeadSnake(loop.my_snake[1])
    /\ steps_since_target_change < MaxSteps
    /\ \E o \in decide_move(EngineState, strategy, game_state,
                            loop.my_snake[1], max_search_depth,
                            target_change_interval) :
          /\ Ends(o)
          /\ loop' = [loop EXCEPT
                         !.pc = IF o.error = "none" THEN "send" ELSE "stopped",
                         !.calls = @ + 1]

\* api_client.send_move(my_snake.id, direction), then the wait for the tick
SendMove ==
    /\ loop.pc = "send"
    /\ loop' = [loop EXCEPT !.pc = "fetch", !.sends = @ + 1,
                            !.sent = Some(direction)]
    /\ UNCHANGED game_state
    /\ EngineIdle

\* bot_logic(api_client, decision_maker, visualization, 0) as main starts it,
\* the engine built from one of the --strategy choices
InitLoop ==
    /\ InitEngine
    /\ strategy \in StrategyMembers
    /\ IdleSearch
    /\ loop = [pc |-> "start", fetched |-> "nothing", my_snake |-> None,
               calls |-> 0, sends |-> 0, sent |-> None]

NextLoop ==
    \/ InitialFetch
    \/ FetchFailed
    \/ FetchState
    \/ SkipDead
    \/ CallDecide
    \/ SendMove

SpecLoop == InitLoop /\ [][NextLoop]_vars

\* the loop is about to fetch the next game state
AboutToFetch == loop.pc = "fetch"

\* C28: in the turn loop, a failed fetch and a state whose controlled snake
\* is dead lead to no decision call and no send; for any other fetched
\* state the engine is called once and the direction it returned is sent
\* once before the next state is fetched; never more than one call or one
\* send for one fetch
TurnLoopOncePerState ==
    /\ loop.calls <= 1
    /\ loop.sends <= loop.calls
    /\ loop.fetched = "none" => loop.calls = 0 /\ loop.sends = 0
    /\ (loop.fetched = "state" /\ loop.my_snake[1].status = "dead")
       => loop.calls = 0 /\ loop.sends = 0
    /\ (AboutToFetch /\ loop.fetched = "state"
          /\ loop.my_snake[1].status # "dead")
       => /\ loop.calls = 1
          /\ loop.sends = 1
          /\ direction # None
          /\ loop.sent = Some(direction)

\* a turn on a state with food and a living snake has been completed: one
\* call, and the unit direction it returned sent once
TurnCompleted ==
    /\ AboutToFetch
    /\ loop.fetched = "state"
    /\ loop.my_snake[1].status = "alive"
    /\ loop.calls = 1
    /\ loop.sends = 1
    /\ loop.sent = Some(direction)
    /\ direction \in UnitDirections
    /\ game_state.food # <<>>

=============================================================================
